---- MODULE Spec2Model ----
(***************************************************************************)
(* A model of the WebSocket subsystem of haske (src/haske/ws.py): the      *)
(* connection pool and its groups, the broadcaster and its channels, the   *)
(* WebSocket wrapper over the Starlette transport, the session manager,    *)
(* the handler loop, the fallback WebSocketFrame, websocket_handshake and  *)
(* the choice of the send method in the fan-outs.                          *)
(*                                                                         *)
(* A behaviour exercises one of them, named by the variable component (the *)
(* session manager and the handler's endpoint together with the global     *)
(* broadcaster they register with); the others stay as constructed.        *)
(*                                                                         *)
(* Scheduling is asyncio's: a coroutine runs without interruption until it *)
(* awaits the transport.  add/remove/join/leave contain no such await and  *)
(* are one action each; a broadcast is suspended in every send, so it is   *)
(* one action per send, and any other task may run in between.             *)
(***************************************************************************)
EXTENDS Naturals, FiniteSets, Sequences, TLC

\* HAS_RUST_WS: the extension _haske_core is not part of the sources, so the
\* import fails and the pure-Python fallbacks are the build.
HAS_RUST_WS == FALSE

\* Number of WebSocket objects of a run.
NumConns == 2

\* The WebSocket objects.  A connection is registered with the pool under its
\* own connection_id, so a connection and its id are the same value here.
Conns == 1..NumConns

\* Names used for pool groups and broadcaster channels.
GroupNames == {"g1", "g2"}

\* channel=None of WebSocketBroadcaster.broadcast.
NoChannel == "None"

\* The empty string, given as the channel argument of broadcast.  No channel
\* of that name is created in a run.
EmptyName == ""

\* Session ids handed to the LiveSessionManager.
SessionIds == {"s1", "s2"}

\* Frames a peer sends during one run of the handler loop.
MaxFrames == 3

\* Payloads of the Ping frames a peer sends.
PingPayloads == {"pa", "pb"}

\* Payload lengths of the frames built: the boundaries of the length encodings.
FrameLengths == {0, 1, 125, 126, 65535, 65536}

\* Byte values the payloads are filled with.
FillBytes == {97, 98}

\* The opcodes of the protocol: continuation, text, binary, close, ping, pong.
Opcodes == {0, 1, 2, 8, 9, 10}

\* Payload lengths of the frames serialized alone: around the 7-bit length field
\* and the one-byte limit of the fallback's header.
ToBytesLengths == {0, 1, 125, 126, 127, 128, 255, 256}

\* Byte strings handed to WebSocketFrame.parse: too short for a header; well
\* formed text and binary frames; a frame shorter than its declared length; a
\* 16-bit length header cut off; a reserved bit set; opcodes 3 and 15.
ParseInputs ==
    {<< >>, <<129>>, <<129, 0>>, <<129, 1, 97>>, <<130, 2, 97, 98>>,
     <<129, 5, 97>>, <<129, 126, 1>>, <<193, 1, 97>>, <<131, 1, 97>>, <<143, 0>>}

\* An optional argument: no element for None, else the value.
None == << >>
Some(v) == <<v>>

\* The code and reason arguments given to WebSocketFrame.close.
CloseCodes == {None, Some(1000), Some(1001), Some(65536)}
CloseReasons == {None, Some(<< >>), Some(<<98, 121, 101>>)}

\* Calls of websocket_handshake in a run.
MaxHandshakes == 2

\* The key "dGhlIHNhbXBsZSBub25jZQ==" of the protocol's published example and
\* the value published for it, "s3pPLMBiTxaQ9kYGzzhZRbK+xOo=".
SampleKey ==
    <<100, 71, 104, 108, 73, 72, 78, 104, 98, 88, 66, 115, 90, 83, 66, 117, 98, 50, 53, 106, 90, 81, 61, 61>>

SampleAccept ==
    <<115, 51, 112, 80, 76, 77, 66, 105, 84, 120, 97, 81, 57, 107, 89, 71, 122, 122, 104, 90, 82, 98, 75, 43, 120, 79, 111, 61>>

\* The keys handed to websocket_handshake: the sample, "x3JJHMbDL1EzLkh9GBhXDw==",
\* the empty key and a key with a character outside ASCII (233).
HandshakeKeys ==
    {SampleKey,
     <<120, 51, 74, 74, 72, 77, 98, 68, 76, 49, 69, 122, 76, 107, 104, 57, 71, 66, 104, 88, 68, 119, 61, 61>>,
     << >>, <<233, 97>>}

\* The types of the messages given to the fan-outs.
MessageTypes == {"str", "bytes", "dict"}

VARIABLES
    component,      \* "pool" | "broadcaster" | "connection" | "session" | "handler" |
                    \* "frame" | "handshake" | "dispatch": the object exercised
    connections,    \* WebSocketConnectionPool.connections: the registered ids
    groups,         \* WebSocketConnectionPool.groups: name -> set of ids
    b_connections,  \* WebSocketBroadcaster._connections
    b_channels,     \* WebSocketBroadcaster._channels: name -> set of WebSocket
    bc,             \* the broadcast call in flight (its frame: locals and position)
    members,        \* history: the pairs <<connection, group>> that the joins, leaves
                    \* and removals made so far should have left as memberships
    wsState,        \* the transport's WebSocketState of each WebSocket
    closeFrames,    \* the Close frames sent on each WebSocket (a close before the
                    \* accept refuses the handshake and sends no frame)
    last,           \* the last call on a WebSocket wrapper, and how it ended
    sessions,       \* LiveSessionManager.sessions: session id -> WebSocket
    sc,             \* the broadcast_to_session call in flight (its frame)
    handler,        \* the websocket_route endpoint running handle_websocket
    rt,             \* the last WebSocketFrame round trip and its result
    fr,             \* the last other WebSocketFrame operation and its result
    hs,             \* the websocket_handshake calls made: key -> value returned
    dp              \* the last send a fan-out made for a message of a given type

vars == <<component, connections, groups, b_connections, b_channels, bc,
          members, wsState, closeFrames, last, sessions, sc, handler, rt, fr, hs, dp>>

----------------------------------------------------------------------------
\* The frame of a broadcast call.
\*   pc          idle | sending (suspended in a send to cur) | done | raised
\*   cur         the target of the send in progress (0: none)
\*   group       the group or channel argument
\*   snapshot    list(...) taken when the loop starts
\*   remaining   the part of the snapshot the loop has not reached
\*   sent_count  the local sent_count
\*   recv        how often each target's send of this call succeeded
\*   failed      the targets whose send raised
\*   skipped     pool only: ids found unregistered at their turn
\*   quiet       no other task changed the registry since the call started
\*   eligible    the members that were registered when the call started
IdleBc ==
    [pc |-> "idle", group |-> NoChannel, snapshot |-> {}, remaining |-> {},
     cur |-> 0, sent_count |-> 0, recv |-> [c \in Conns |-> 0],
     failed |-> {}, skipped |-> {}, quiet |-> TRUE, eligible |-> {}]

\* What last holds.  ws: the WebSocket; pre: the transport's state when the call was made; err: the
\* exception the call raised; forwarded: the call reached the transport.
Call(op, ws, pre, err, forwarded) ==
    [op |-> op, ws |-> ws, pre |-> pre, err |-> err, forwarded |-> forwarded]

NoCall == Call("none", 0, "CONNECTING", "none", FALSE)

\* The frame of a broadcast_to_session call.
\*   pc       idle | sending (suspended in the send to target) | done
\*   sid      the session_id argument
\*   known    session_id was in self.sessions when the call started
\*   target   self.sessions[session_id] at that moment (0: none)
\*   sendok   the send returned without raising
\*   result   the value returned
\*   pre      the sessions and the broadcaster's connections when the call started
\* No call in flight: no frame.
IdleSc == [pc |-> "idle"]

\* The frame of a call that starts.
StartedSc(pc, sid, known, target) ==
    [pc |-> pc, sid |-> sid, known |-> known, target |-> target,
     sendok |-> FALSE, result |-> FALSE,
     pre |-> [sessions |-> sessions, conns |-> b_connections]]

\* on_message's argument: the message's arrival number and the form it is
\* handed over in ("decoded": the value json.loads returned; "text": its text).
Message(id, form) == [id |-> id, form |-> form]

NoMessage == Message(0, "none")

\* The endpoint of websocket_route running handle_websocket.
\*   pc         idle | func (the endpoint's func, before handle_websocket) |
\*              receive_json | receive_text (suspended in that receive) |
\*              on_message (dispatching msg) | finally | returned | exited
\*   ws         the wrapper the endpoint created (0: none)
\*   inbox      what the transport holds for the next receive, in arrival order
\*   arrived    the frames the peer has sent
\*   peerClosed the peer has sent its close
\*   taken      the data messages the receives have returned, in order
\*   msg        the local variable message
\*   delivered  the arguments of the on_message calls, in order
\*   hooks      the hook calls, in order
\*   cause      why the loop ended: "state" (the while test) or "on_message"
\*              (the break, on an exception on_message raised)
\*   pings      the payloads of the Ping frames the peer sent
\*   pongs      the payloads of the Pong frames the loop sent
\* No endpoint running: no frame.
IdleH == [pc |-> "idle"]

\* The frame of an endpoint that starts for the wrapper ws.
StartedH(ws) ==
    [pc |-> "func", ws |-> ws, inbox |-> << >>, arrived |-> 0, peerClosed |-> FALSE,
     taken |-> << >>, msg |-> NoMessage, delivered |-> << >>, hooks |-> << >>,
     cause |-> "none", pings |-> << >>, pongs |-> << >>]

\* What rt holds: the frame built (opcode, and a payload of len bytes of value
\* fill), the exception to_bytes or parse raised, and whether the parsed frame
\* equals the one built.
RoundTrip(opcode, len, fill, err, same) ==
    [called |-> TRUE, opcode |-> opcode, len |-> len, fill |-> fill,
     err |-> err, same |-> same]

NoRoundTrip == [called |-> FALSE]

\* What fr holds: the operation, its arguments, the exception it raised and
\* what it returned.  rt and fr describe the last WebSocketFrame operation: a
\* round trip is in rt, any other operation in fr.
FrameOp(op, arg, err, out) == [op |-> op, arg |-> arg, err |-> err, out |-> out]

NoFrameOp == [op |-> "none"]

\* What dp holds before any fan-out has sent.
NoDispatch == [called |-> FALSE]

\* Another task changed the registry: a broadcast in flight is no longer alone.
Disturbed == IF bc.pc = "sending" THEN [bc EXCEPT !.quiet = FALSE] ELSE bc

\* Other tasks run only while a broadcast is suspended in a send: from the end
\* of its loop to its return statement there is no await.
TaskCanRun == bc.pc # "done"

\* The history variable's rules.
Joined(c, g) == members \cup {<<c, g>>}
Left(c, g) == members \ {<<c, g>>}
Removed(c) == {m \in members : m[1] # c}
Recreated(g) == {m \in members : m[2] # g}

Init ==
    /\ component \in {"pool", "broadcaster", "connection", "session", "handler",
                      "frame", "handshake", "dispatch"}
    /\ connections = {}
    /\ groups = << >>
    /\ b_connections = {}
    /\ b_channels = << >>
    /\ bc = IdleBc
    /\ members = {}
    /\ wsState = [c \in Conns |-> "CONNECTING"]
    /\ closeFrames = [c \in Conns |-> 0]
    /\ last = NoCall
    /\ sessions = << >>
    /\ sc = IdleSc
    /\ handler = IdleH
    /\ rt = NoRoundTrip
    /\ fr = NoFrameOp
    /\ hs = << >>
    /\ dp = NoDispatch

----------------------------------------------------------------------------
\* WebSocketConnectionPool

\* self.connections.pop(connection_id, None)
PoolConnectionsWithout(id) == connections \ {id}

\* A remove_connection that forgets the groups.
PoolGroupsKept(id) == groups

\* A remove_connection that writes the group back from the snapshot a broadcast
\* in flight took, instead of discarding from the live set.
PoolGroupsWithoutStale(id) ==
    [g \in DOMAIN groups |->
        IF bc.pc = "sending" /\ g = bc.group THEN bc.snapshot \ {id}
        ELSE groups[g] \ {id}]

\* for group_name, group_connections in self.groups.items(): discard(id)
PoolGroupsWithout(id) == [g \in DOMAIN groups |-> groups[g] \ {id}]

\* add_to_group: the group is created when missing, then the id is added.
PoolGroupsWith(id, g) ==
    [h \in DOMAIN groups \cup {g} |->
        IF h = g
        THEN (IF g \in DOMAIN groups THEN groups[g] ELSE {}) \cup {id}
        ELSE groups[h]]

Pool_add_connection(id) ==
    /\ component = "pool"
    /\ connections' = connections \cup {id}
    /\ TaskCanRun
    /\ bc' = Disturbed
    /\ UNCHANGED <<component, wsState, closeFrames, last, groups, b_connections, b_channels>>
    /\ UNCHANGED members
    /\ UNCHANGED <<sessions, sc, handler, rt, fr, hs, dp>>

Pool_remove_connection(id) ==
    /\ component = "pool"
    /\ connections' = PoolConnectionsWithout(id)
    /\ groups' = PoolGroupsWithout(id)
    /\ TaskCanRun
    /\ bc' = Disturbed
    /\ UNCHANGED <<component, wsState, closeFrames, last, b_connections, b_channels>>
    /\ members' = Removed(id)
    /\ UNCHANGED <<sessions, sc, handler, rt, fr, hs, dp>>

Pool_add_to_group(id, g) ==
    /\ component = "pool"
    /\ groups' = PoolGroupsWith(id, g)
    /\ TaskCanRun
    /\ bc' = Disturbed
    /\ UNCHANGED <<component, wsState, closeFrames, last, connections, b_connections, b_channels>>
    /\ members' = Joined(id, g)
    /\ UNCHANGED <<sessions, sc, handler, rt, fr, hs, dp>>

Pool_remove_from_group(id, g) ==
    /\ component = "pool"
    /\ groups' = IF g \in DOMAIN groups
                 THEN [groups EXCEPT ![g] = @ \ {id}]
                 ELSE groups
    /\ TaskCanRun
    /\ bc' = Disturbed
    /\ UNCHANGED <<component, wsState, closeFrames, last, connections, b_connections, b_channels>>
    /\ members' = Left(id, g)
    /\ UNCHANGED <<sessions, sc, handler, rt, fr, hs, dp>>

\* The loop of broadcast_to_group from the end of one send to the start of the
\* next: ids that are not in self.connections (reg) at their turn are passed
\* over, the first registered one is sent to.  The snapshot is list(set), whose
\* order is arbitrary: any unregistered ids may come before the next target.
PoolAdvance(b, reg) ==
    IF b.remaining \cap reg = {}
    THEN {[b EXCEPT !.pc = "done", !.cur = 0, !.remaining = {},
                    !.skipped = @ \cup b.remaining]}
    ELSE {[b EXCEPT !.pc = "sending", !.cur = c,
                    !.remaining = @ \ (S \cup {c}),
                    !.skipped = @ \cup S] :
            c \in b.remaining \cap reg, S \in SUBSET (b.remaining \ reg)}

Pool_broadcast_to_group(g) ==
    /\ component = "pool"
    /\ bc.pc = "idle"
    /\ IF g \notin DOMAIN groups
       THEN bc' = [IdleBc EXCEPT !.pc = "done", !.group = g]
       ELSE bc' \in PoolAdvance([IdleBc EXCEPT !.group = g,
                                               !.snapshot = groups[g],
                                               !.remaining = groups[g],
                                               !.eligible = groups[g] \cap connections],
                                connections)
    /\ UNCHANGED <<component, wsState, closeFrames, last, connections, groups, b_connections, b_channels>>
    /\ UNCHANGED members
    /\ UNCHANGED <<sessions, sc, handler, rt, fr, hs, dp>>

\* The frame after the send to b.cur returned: sent_count += 1.
SendSucceeded(b) ==
    [b EXCEPT !.sent_count = @ + 1, !.recv[b.cur] = @ + 1]

\* The frame after the send to b.cur raised: except Exception catches it.
SendFailed(b) ==
    [b EXCEPT !.failed = @ \cup {b.cur}]

\* The send the call is suspended in completes; ok is what the transport did.
Pool_broadcast_send(ok) ==
    /\ component = "pool"
    /\ bc.pc = "sending"
    /\ IF ok
       THEN /\ bc' \in PoolAdvance(SendSucceeded(bc), connections)
            /\ UNCHANGED <<connections, groups>>
       ELSE /\ connections' = PoolConnectionsWithout(bc.cur)
            /\ groups' = PoolGroupsWithout(bc.cur)
            /\ bc' \in PoolAdvance(SendFailed(bc), connections')
    /\ UNCHANGED <<component, wsState, closeFrames, last, b_connections, b_channels>>
    /\ members' = IF ok THEN members ELSE Removed(bc.cur)
    /\ UNCHANGED <<sessions, sc, handler, rt, fr, hs, dp>>

\* The caller takes the returned count.
Broadcast_return ==
    /\ bc.pc = "done"
    /\ bc' = IdleBc
    /\ UNCHANGED <<component, wsState, closeFrames, last, connections, groups, b_connections, b_channels>>
    /\ UNCHANGED members
    /\ UNCHANGED <<sessions, sc, handler, rt, fr, hs, dp>>

PoolNext ==
    \/ \E id \in Conns : Pool_add_connection(id)
    \/ \E id \in Conns : Pool_remove_connection(id)
    \/ \E id \in Conns, g \in GroupNames : Pool_add_to_group(id, g)
    \/ \E id \in Conns, g \in GroupNames : Pool_remove_from_group(id, g)
    \/ \E g \in GroupNames : Pool_broadcast_to_group(g)
    \/ \E ok \in BOOLEAN : Pool_broadcast_send(ok)

----------------------------------------------------------------------------
\* WebSocketBroadcaster (the Python path: self._rust_manager is None)

\* self._connections.discard(websocket)
BroadcasterConnectionsWithout(ws) == b_connections \ {ws}

\* A remove_connection that discards from the first channel only.
BroadcasterChannelsWithoutFirstOnly(ws) ==
    [n \in DOMAIN b_channels |->
        IF n = "g1" THEN b_channels[n] \ {ws} ELSE b_channels[n]]

\* for channel_connections in self._channels.values(): discard(websocket)
BroadcasterChannelsWithout(ws) ==
    [n \in DOMAIN b_channels |-> b_channels[n] \ {ws}]

\* self._channels[channel_name] = set(): an existing channel is replaced.
BroadcasterChannelsCreated(n) ==
    [h \in DOMAIN b_channels \cup {n} |-> IF h = n THEN {} ELSE b_channels[h]]

Broadcaster_add_connection(ws) ==
    /\ component = "broadcaster"
    /\ b_connections' = b_connections \cup {ws}
    /\ TaskCanRun
    /\ bc' = Disturbed
    /\ UNCHANGED <<component, wsState, closeFrames, last, connections, groups, b_channels>>
    /\ UNCHANGED members
    /\ UNCHANGED <<sessions, sc, handler, rt, fr, hs, dp>>

Broadcaster_remove_connection(ws) ==
    /\ component = "broadcaster"
    /\ b_connections' = BroadcasterConnectionsWithout(ws)
    /\ b_channels' = BroadcasterChannelsWithout(ws)
    /\ TaskCanRun
    /\ bc' = Disturbed
    /\ UNCHANGED <<component, wsState, closeFrames, last, connections, groups>>
    /\ members' = Removed(ws)
    /\ UNCHANGED <<sessions, sc, handler, rt, fr, hs, dp>>

Broadcaster_create_channel(n) ==
    /\ component = "broadcaster"
    /\ b_channels' = BroadcasterChannelsCreated(n)
    /\ TaskCanRun
    /\ bc' = Disturbed
    /\ UNCHANGED <<component, wsState, closeFrames, last, connections, groups, b_connections>>
    /\ members' = Recreated(n)
    /\ UNCHANGED <<sessions, sc, handler, rt, fr, hs, dp>>

Broadcaster_add_to_channel(ws, n) ==
    /\ component = "broadcaster"
    /\ b_channels' = IF n \in DOMAIN b_channels
                     THEN [b_channels EXCEPT ![n] = @ \cup {ws}]
                     ELSE b_channels
    /\ TaskCanRun
    /\ bc' = Disturbed
    /\ UNCHANGED <<component, wsState, closeFrames, last, connections, groups, b_connections>>
    /\ members' = IF n \in DOMAIN b_channels THEN Joined(ws, n) ELSE members
    /\ UNCHANGED <<sessions, sc, handler, rt, fr, hs, dp>>

Broadcaster_remove_from_channel(ws, n) ==
    /\ component = "broadcaster"
    /\ b_channels' = IF n \in DOMAIN b_channels
                     THEN [b_channels EXCEPT ![n] = @ \ {ws}]
                     ELSE b_channels
    /\ TaskCanRun
    /\ bc' = Disturbed
    /\ UNCHANGED <<component, wsState, closeFrames, last, connections, groups, b_connections>>
    /\ members' = Left(ws, n)
    /\ UNCHANGED <<sessions, sc, handler, rt, fr, hs, dp>>

\* "if channel": None and the empty string are false.
Falsy(channel) == channel \in {NoChannel, EmptyName}

\* connections = self._channels.get(channel, set()) if channel else self._connections
BroadcasterTargets(channel) ==
    IF Falsy(channel) THEN b_connections
    ELSE IF channel \in DOMAIN b_channels THEN b_channels[channel]
    ELSE {}

\* A loop without the except clause: the first failed send ends the call.
BroadcasterAdvanceAbort(b) ==
    IF b.failed # {}
    THEN {[b EXCEPT !.pc = "raised", !.cur = 0]}
    ELSE IF b.remaining = {}
    THEN {[b EXCEPT !.pc = "done", !.cur = 0]}
    ELSE {[b EXCEPT !.pc = "sending", !.cur = c, !.remaining = @ \ {c}] :
            c \in b.remaining}

\* The loop of broadcast from the end of one send to the start of the next:
\* the next element of list(connections), in the list's arbitrary order.
BroadcasterAdvance(b) ==
    IF b.remaining = {}
    THEN {[b EXCEPT !.pc = "done", !.cur = 0]}
    ELSE {[b EXCEPT !.pc = "sending", !.cur = c, !.remaining = @ \ {c}] :
            c \in b.remaining}

Broadcaster_broadcast(channel) ==
    /\ component = "broadcaster"
    /\ bc.pc = "idle"
    /\ bc' \in BroadcasterAdvance([IdleBc EXCEPT !.group = channel,
                                               !.snapshot = BroadcasterTargets(channel),
                                               !.remaining = BroadcasterTargets(channel),
                                               !.eligible = BroadcasterTargets(channel)])
    /\ UNCHANGED <<component, wsState, closeFrames, last, connections, groups, b_connections, b_channels>>
    /\ UNCHANGED members
    /\ UNCHANGED <<sessions, sc, handler, rt, fr, hs, dp>>

Broadcaster_broadcast_send(ok) ==
    /\ component = "broadcaster"
    /\ bc.pc = "sending"
    /\ IF ok
       THEN /\ bc' \in BroadcasterAdvance(SendSucceeded(bc))
            /\ UNCHANGED <<b_connections, b_channels>>
       ELSE /\ b_connections' = BroadcasterConnectionsWithout(bc.cur)
            /\ b_channels' = BroadcasterChannelsWithout(bc.cur)
            /\ bc' \in BroadcasterAdvance(SendFailed(bc))
    /\ UNCHANGED <<component, wsState, closeFrames, last, connections, groups>>
    /\ members' = IF ok THEN members ELSE Removed(bc.cur)
    /\ UNCHANGED <<sessions, sc, handler, rt, fr, hs, dp>>

BroadcasterNext ==
    \/ \E ws \in Conns : Broadcaster_add_connection(ws)
    \/ \E ws \in Conns : Broadcaster_remove_connection(ws)
    \/ \E n \in GroupNames : Broadcaster_create_channel(n)
    \/ \E ws \in Conns, n \in GroupNames : Broadcaster_add_to_channel(ws, n)
    \/ \E ws \in Conns, n \in GroupNames : Broadcaster_remove_from_channel(ws, n)
    \/ \E channel \in GroupNames \cup {NoChannel, EmptyName} :
          Broadcaster_broadcast(channel)
    \/ \E ok \in BOOLEAN : Broadcaster_broadcast_send(ok)

----------------------------------------------------------------------------
\* WebSocket: the wrapper over the Starlette transport (self._ws)

\* starlette.websockets.WebSocketState as the wrapper's state property shows it.
WebSocketState == {"CONNECTING", "CONNECTED", "DISCONNECTED"}

\* What the transport does with an ASGI message sent in state st: the state it
\* moves to and the exception it raises.  Before the accept it takes only
\* websocket.accept and websocket.close, once connected only websocket.send and
\* websocket.close, and nothing after a close message or a disconnect.
TransportSend(st, msg) ==
    CASE st = "CONNECTING" /\ msg = "websocket.accept" ->
            [state |-> "CONNECTED", err |-> "none"]
      [] st = "CONNECTING" /\ msg = "websocket.close" ->
            [state |-> "DISCONNECTED", err |-> "none"]
      [] st = "CONNECTED" /\ msg = "websocket.send" ->
            [state |-> "CONNECTED", err |-> "none"]
      [] st = "CONNECTED" /\ msg = "websocket.close" ->
            [state |-> "DISCONNECTED", err |-> "none"]
      [] OTHER -> [state |-> st, err |-> "RuntimeError"]

\* A wrapper method that hands msg to the transport, with no check of its own.
Forward(ws, op, msg) ==
    LET r == TransportSend(wsState[ws], msg) IN
    /\ wsState' = [wsState EXCEPT ![ws] = r.state]
    /\ last' = Call(op, ws, wsState[ws], r.err, TRUE)

WebSocket_accept(ws) ==
    /\ component = "connection"
    /\ Forward(ws, "accept", "websocket.accept")
    /\ UNCHANGED <<component, connections, groups, b_connections, b_channels, bc,
                   closeFrames>>
    /\ UNCHANGED members
    /\ UNCHANGED <<sessions, sc, handler, rt, fr, hs, dp>>

WebSocket_close(ws) ==
    /\ component = "connection"
    /\ Forward(ws, "close", "websocket.close")
    /\ closeFrames' = [closeFrames EXCEPT ![ws] =
                            IF wsState[ws] = "CONNECTED" /\ last'.err = "none"
                            THEN @ + 1 ELSE @]
    /\ UNCHANGED <<component, connections, groups, b_connections, b_channels, bc>>
    /\ UNCHANGED members
    /\ UNCHANGED <<sessions, sc, handler, rt, fr, hs, dp>>

WebSocket_send_bytes(ws) ==
    /\ component = "connection"
    /\ Forward(ws, "send_bytes", "websocket.send")
    /\ UNCHANGED <<component, connections, groups, b_connections, b_channels, bc,
                   closeFrames>>
    /\ UNCHANGED members
    /\ UNCHANGED <<sessions, sc, handler, rt, fr, hs, dp>>

WebSocket_send_text(ws) ==
    /\ component = "connection"
    /\ Forward(ws, "send_text", "websocket.send")
    /\ UNCHANGED <<component, connections, groups, b_connections, b_channels, bc,
                   closeFrames>>
    /\ UNCHANGED members
    /\ UNCHANGED <<sessions, sc, handler, rt, fr, hs, dp>>

\* text = json.dumps(data, default=str); await self.send_text(text)
WebSocket_send_json(ws) ==
    /\ component = "connection"
    /\ Forward(ws, "send_json", "websocket.send")
    /\ UNCHANGED <<component, connections, groups, b_connections, b_channels, bc,
                   closeFrames>>
    /\ UNCHANGED members
    /\ UNCHANGED <<sessions, sc, handler, rt, fr, hs, dp>>

\* Without the extension send_frame raises before it touches the transport;
\* with it, the frame's bytes go through send_bytes.
WebSocket_send_frame(ws) ==
    /\ component = "connection"
    /\ IF HAS_RUST_WS
       THEN Forward(ws, "send_frame", "websocket.send")
       ELSE /\ last' = Call("send_frame", ws, wsState[ws], "RuntimeError", FALSE)
            /\ UNCHANGED wsState
    /\ UNCHANGED <<component, connections, groups, b_connections, b_channels, bc,
                   closeFrames>>
    /\ UNCHANGED members
    /\ UNCHANGED <<sessions, sc, handler, rt, fr, hs, dp>>

\* The peer goes away (a remote close, or the transport breaks).
Transport_disconnect(ws) ==
    /\ component = "connection"
    /\ wsState[ws] # "DISCONNECTED"
    /\ wsState' = [wsState EXCEPT ![ws] = "DISCONNECTED"]
    /\ last' = Call("disconnect", ws, wsState[ws], "none", FALSE)
    /\ UNCHANGED <<component, connections, groups, b_connections, b_channels, bc,
                   closeFrames>>
    /\ UNCHANGED members
    /\ UNCHANGED <<sessions, sc, handler, rt, fr, hs, dp>>

\* websocket_route's endpoint: ws = WebSocket(websocket); add_connection(ws);
\* then func(ws) runs (the wrapper calls above) ...
Endpoint_enter(ws) ==
    /\ component = "connection"
    /\ ws \notin b_connections
    /\ wsState[ws] = "CONNECTING"
    /\ b_connections' = b_connections \cup {ws}
    /\ UNCHANGED <<component, connections, groups, b_channels, bc,
                   wsState, closeFrames, last>>
    /\ UNCHANGED members
    /\ UNCHANGED <<sessions, sc, handler, rt, fr, hs, dp>>

\* ... finally: remove_connection(ws), when func returned or raised.
Endpoint_exit(ws) ==
    /\ component = "connection"
    /\ ws \in b_connections
    /\ b_connections' = BroadcasterConnectionsWithout(ws)
    /\ b_channels' = BroadcasterChannelsWithout(ws)
    /\ UNCHANGED <<component, connections, groups, bc, wsState, closeFrames, last>>
    /\ members' = Removed(ws)
    /\ UNCHANGED <<sessions, sc, handler, rt, fr, hs, dp>>

ConnectionNext ==
    \/ \E ws \in Conns : WebSocket_accept(ws)
    \/ \E ws \in Conns : WebSocket_close(ws)
    \/ \E ws \in Conns : WebSocket_send_bytes(ws)
    \/ \E ws \in Conns : WebSocket_send_text(ws)
    \/ \E ws \in Conns : WebSocket_send_json(ws)
    \/ \E ws \in Conns : WebSocket_send_frame(ws)
    \/ \E ws \in Conns : Transport_disconnect(ws)
    \/ \E ws \in Conns : Endpoint_enter(ws)
    \/ \E ws \in Conns : Endpoint_exit(ws)

----------------------------------------------------------------------------
\* LiveSessionManager, over the global broadcaster (get_broadcaster()).
\* One call of the manager that awaits a send is in flight at a time.

\* Other tasks run only while a call is suspended in a send.
SessionTaskCanRun == TaskCanRun /\ sc.pc # "done"

\* self.sessions[session_id] = websocket
SessionsWith(sid, ws) ==
    [s \in DOMAIN sessions \cup {sid} |-> IF s = sid THEN ws ELSE sessions[s]]

\* self.sessions.pop(session_id)
SessionsWithout(sid) == [s \in DOMAIN sessions \ {sid} |-> sessions[s]]

\* The body of remove_session: pop the entry and remove its connection from
\* the broadcaster; nothing when the id is unknown.
RemoveSession(sid) ==
    IF sid \in DOMAIN sessions
    THEN /\ sessions' = SessionsWithout(sid)
         /\ b_connections' = BroadcasterConnectionsWithout(sessions[sid])
         /\ b_channels' = BroadcasterChannelsWithout(sessions[sid])
         /\ members' = Removed(sessions[sid])
    ELSE UNCHANGED <<sessions, b_connections, b_channels, members>>

Session_add_session(sid, ws) ==
    /\ component = "session"
    /\ SessionTaskCanRun
    /\ sessions' = SessionsWith(sid, ws)
    /\ b_connections' = b_connections \cup {ws}
    /\ bc' = Disturbed
    /\ UNCHANGED <<component, connections, groups, b_channels, members,
                   wsState, closeFrames, last, sc, handler, rt, fr, hs, dp>>

Session_remove_session(sid) ==
    /\ component = "session"
    /\ SessionTaskCanRun
    /\ RemoveSession(sid)
    /\ bc' = Disturbed
    /\ UNCHANGED <<component, connections, groups, wsState, closeFrames, last, sc,
                   handler, rt, fr, hs, dp>>

\* A websocket_route endpoint elsewhere in the application registers its
\* connection with the same global broadcaster.
Session_route_endpoint(ws) ==
    /\ component = "session"
    /\ SessionTaskCanRun
    /\ ws \notin b_connections
    /\ b_connections' = b_connections \cup {ws}
    /\ bc' = Disturbed
    /\ UNCHANGED <<component, connections, groups, b_channels, members,
                   wsState, closeFrames, last, sessions, sc, handler, rt, fr, hs, dp>>

\* broadcast_to_session up to its await: an unknown id returns False at once.
Session_broadcast_to_session(sid) ==
    /\ component = "session"
    /\ bc.pc = "idle" /\ sc.pc = "idle"
    /\ sc' = IF sid \in DOMAIN sessions
             THEN StartedSc("sending", sid, TRUE, sessions[sid])
             ELSE StartedSc("done", sid, FALSE, 0)
    /\ UNCHANGED <<component, connections, groups, b_connections, b_channels, bc,
                   members, wsState, closeFrames, last, sessions, handler, rt, fr, hs, dp>>

\* The send completes: return True, or except Exception: remove_session(session_id)
\* and return False.
Session_broadcast_to_session_send(ok) ==
    /\ component = "session"
    /\ sc.pc = "sending"
    /\ IF ok
       THEN /\ sc' = [sc EXCEPT !.pc = "done", !.sendok = TRUE, !.result = TRUE]
            /\ UNCHANGED <<sessions, b_connections, b_channels, members>>
       ELSE /\ sc' = [sc EXCEPT !.pc = "done", !.result = FALSE]
            /\ RemoveSession(sc.sid)
    /\ UNCHANGED <<component, connections, groups, bc, wsState, closeFrames, last, handler, rt, fr, hs, dp>>

\* The caller takes the returned bool.
Session_broadcast_to_session_return ==
    /\ component = "session"
    /\ sc.pc = "done"
    /\ sc' = IdleSc
    /\ UNCHANGED <<component, connections, groups, b_connections, b_channels, bc,
                   members, wsState, closeFrames, last, sessions, handler, rt, fr, hs, dp>>

\* return await self.broadcaster.broadcast(message): the broadcaster's loop
\* over all its connections.
Session_broadcast_to_all ==
    /\ component = "session"
    /\ bc.pc = "idle" /\ sc.pc = "idle"
    /\ bc' \in BroadcasterAdvance([IdleBc EXCEPT !.snapshot = BroadcasterTargets(NoChannel),
                                               !.remaining = BroadcasterTargets(NoChannel),
                                               !.eligible = BroadcasterTargets(NoChannel)])
    /\ UNCHANGED <<component, connections, groups, b_connections, b_channels,
                   members, wsState, closeFrames, last, sessions, sc, handler, rt, fr, hs, dp>>

Session_broadcast_to_all_send(ok) ==
    /\ component = "session"
    /\ bc.pc = "sending"
    /\ IF ok
       THEN /\ bc' \in BroadcasterAdvance(SendSucceeded(bc))
            /\ UNCHANGED <<b_connections, b_channels, members>>
       ELSE /\ b_connections' = BroadcasterConnectionsWithout(bc.cur)
            /\ b_channels' = BroadcasterChannelsWithout(bc.cur)
            /\ members' = Removed(bc.cur)
            /\ bc' \in BroadcasterAdvance(SendFailed(bc))
    /\ UNCHANGED <<component, connections, groups, wsState, closeFrames, last,
                   sessions, sc, handler, rt, fr, hs, dp>>

SessionNext ==
    \/ \E sid \in SessionIds, ws \in Conns : Session_add_session(sid, ws)
    \/ \E sid \in SessionIds : Session_remove_session(sid)
    \/ \E ws \in Conns : Session_route_endpoint(ws)
    \/ \E sid \in SessionIds : Session_broadcast_to_session(sid)
    \/ \E ok \in BOOLEAN : Session_broadcast_to_session_send(ok)
    \/ Session_broadcast_to_session_return
    \/ Session_broadcast_to_all
    \/ \E ok \in BOOLEAN : Session_broadcast_to_all_send(ok)

----------------------------------------------------------------------------
\* WebSocketHandler.handle_websocket, run as the func of a websocket_route
\* endpoint.  The base class's hooks do nothing; what an application's hooks
\* do is the choice of the actions' parameters.

\* The while test: websocket.state == WebSocketState.CONNECTED.
LoopTop(st) == IF st = "CONNECTED" THEN "receive_json" ELSE "finally"

\* How a call of on_message ends: it returns, raises some exception, or raises
\* a RuntimeError whose text contains "WebSocket is not connected".
OnMessageOutcomes == {"returns", "Exception", "RuntimeError not connected"}

\* ws = WebSocket(websocket); await _broadcaster.add_connection(ws)
Handler_endpoint_enter(ws) ==
    /\ component = "handler"
    /\ handler.pc = "idle"
    /\ handler' = StartedH(ws)
    /\ b_connections' = b_connections \cup {ws}
    /\ UNCHANGED <<component, connections, groups, b_channels, bc, members,
                   wsState, closeFrames, last, sessions, sc, rt, fr, hs, dp>>

\* The endpoint's func accepts the connection before it runs the loop.
Handler_accept ==
    /\ component = "handler"
    /\ handler.pc = "func"
    /\ wsState[handler.ws] = "CONNECTING"
    /\ Forward(handler.ws, "accept", "websocket.accept")
    /\ UNCHANGED <<component, connections, groups, b_connections, b_channels, bc,
                   members, closeFrames, sessions, sc, handler, rt, fr, hs, dp>>

\* The authentication layer supplies a session id for the connection, once:
\* LiveSessionManager.add_session(sid, ws).
Handler_add_session(sid) ==
    /\ component = "handler"
    /\ handler.pc = "func"
    /\ \A s \in DOMAIN sessions : sessions[s] # handler.ws
    /\ sessions' = SessionsWith(sid, handler.ws)
    /\ b_connections' = b_connections \cup {handler.ws}
    /\ UNCHANGED <<component, connections, groups, b_channels, bc, members,
                   wsState, closeFrames, last, sc, handler, rt, fr, hs, dp>>

\* await self.on_connect(websocket), then the first while test.
Handler_handle_websocket ==
    /\ component = "handler"
    /\ handler.pc = "func"
    /\ handler' = [handler EXCEPT !.hooks = Append(@, "on_connect"),
                                  !.pc = LoopTop(wsState[handler.ws])]
    /\ UNCHANGED <<component, connections, groups, b_connections, b_channels, bc,
                   members, wsState, closeFrames, last, sessions, sc, rt, fr, hs, dp>>

\* The peer sends a text message: valid JSON ("json") or not ("text").
Transport_message(kind) ==
    /\ component = "handler"
    /\ handler.pc \notin {"idle", "exited"}
    /\ wsState[handler.ws] = "CONNECTED"
    /\ ~handler.peerClosed
    /\ handler.arrived < MaxFrames
    /\ handler' = [handler EXCEPT
                      !.arrived = @ + 1,
                      !.inbox = Append(@, [id |-> handler.arrived + 1, kind |-> kind])]
    /\ UNCHANGED <<component, connections, groups, b_connections, b_channels, bc,
                   members, wsState, closeFrames, last, sessions, sc, rt, fr, hs, dp>>

\* The peer sends a Ping.  The ASGI interface the transport reads from has no
\* message for it, so no receive returns it.
Transport_ping(payload) ==
    /\ component = "handler"
    /\ handler.pc \in {"receive_json", "receive_text"}
    /\ wsState[handler.ws] = "CONNECTED"
    /\ ~handler.peerClosed
    /\ handler.arrived < MaxFrames
    /\ handler' = [handler EXCEPT !.arrived = @ + 1, !.pings = Append(@, payload)]
    /\ UNCHANGED <<component, connections, groups, b_connections, b_channels, bc,
                   members, wsState, closeFrames, last, sessions, sc, rt, fr, hs, dp>>

\* The peer closes (end of stream): the transport queues websocket.disconnect.
Transport_peer_close ==
    /\ component = "handler"
    /\ handler.pc \notin {"idle", "exited"}
    /\ wsState[handler.ws] = "CONNECTED"
    /\ ~handler.peerClosed
    /\ handler' = [handler EXCEPT
                      !.peerClosed = TRUE,
                      !.inbox = Append(@, [id |-> 0, kind |-> "disconnect"])]
    /\ UNCHANGED <<component, connections, groups, b_connections, b_channels, bc,
                   members, wsState, closeFrames, last, sessions, sc, rt, fr, hs, dp>>

\* A receive_text gets websocket.disconnect: the transport is DISCONNECTED and
\* raises WebSocketDisconnect, which is neither a ValueError nor the
\* RuntimeError of the break: the outer except prints it and the while test
\* ends the loop.
ReceiveDisconnect ==
    /\ wsState' = [wsState EXCEPT ![handler.ws] = "DISCONNECTED"]
    /\ last' = Call("disconnect", handler.ws, wsState[handler.ws], "none", FALSE)
    /\ handler' = [handler EXCEPT !.inbox = Tail(@),
                                  !.pc = LoopTop("DISCONNECTED"),
                                  !.cause = "state"]

\* message = await websocket.receive_json(): receive_text, then json.loads,
\* which raises JSONDecodeError on a text that is not JSON.
Handler_receive_json ==
    /\ component = "handler"
    /\ handler.pc = "receive_json"
    /\ handler.inbox # << >>
    /\ LET m == Head(handler.inbox) IN
       IF m.kind = "disconnect"
       THEN ReceiveDisconnect
       ELSE /\ handler' = [handler EXCEPT
                              !.inbox = Tail(@),
                              !.taken = Append(@, m),
                              !.msg = IF m.kind = "json"
                                      THEN Message(m.id, "decoded") ELSE NoMessage,
                              !.pc = IF m.kind = "json"
                                     THEN "on_message" ELSE "receive_text"]
            /\ UNCHANGED <<wsState, last>>
    /\ UNCHANGED <<component, connections, groups, b_connections, b_channels, bc,
                   members, closeFrames, sessions, sc, rt, fr, hs, dp>>

\* except (json.JSONDecodeError, ValueError): message = await
\* websocket.receive_text(): the next message of the transport.
Handler_receive_text ==
    /\ component = "handler"
    /\ handler.pc = "receive_text"
    /\ handler.inbox # << >>
    /\ LET m == Head(handler.inbox) IN
       IF m.kind = "disconnect"
       THEN ReceiveDisconnect
       ELSE /\ handler' = [handler EXCEPT
                              !.inbox = Tail(@),
                              !.taken = Append(@, m),
                              !.msg = Message(m.id, "text"),
                              !.pc = "on_message"]
            /\ UNCHANGED <<wsState, last>>
    /\ UNCHANGED <<component, connections, groups, b_connections, b_channels, bc,
                   members, closeFrames, sessions, sc, rt, fr, hs, dp>>

\* await self.on_message(websocket, message) and the except clause around it:
\* the RuntimeError with the text breaks, anything else is printed.
Handler_on_message(outcome) ==
    /\ component = "handler"
    /\ handler.pc = "on_message"
    /\ handler' = [handler EXCEPT
                      !.delivered = Append(@, handler.msg),
                      !.hooks = Append(@, "on_message"),
                      !.msg = NoMessage,
                      !.pc = IF outcome = "RuntimeError not connected"
                             THEN "finally" ELSE LoopTop(wsState[handler.ws]),
                      !.cause = IF outcome = "RuntimeError not connected"
                                THEN "on_message"
                                ELSE IF wsState[handler.ws] = "CONNECTED"
                                THEN @ ELSE "state"]
    /\ UNCHANGED <<component, connections, groups, b_connections, b_channels, bc,
                   members, wsState, closeFrames, last, sessions, sc, rt, fr, hs, dp>>

\* finally: await self.on_disconnect(websocket, 1000); handle_websocket returns.
Handler_on_disconnect ==
    /\ component = "handler"
    /\ handler.pc = "finally"
    /\ handler' = [handler EXCEPT !.hooks = Append(@, "on_disconnect"),
                                  !.pc = "returned",
                                  !.cause = IF @ = "none" THEN "state" ELSE @]
    /\ UNCHANGED <<component, connections, groups, b_connections, b_channels, bc,
                   members, wsState, closeFrames, last, sessions, sc, rt, fr, hs, dp>>

\* The endpoint's finally: await _broadcaster.remove_connection(ws).
Handler_endpoint_exit ==
    /\ component = "handler"
    /\ handler.pc = "returned"
    /\ handler' = [handler EXCEPT !.pc = "exited"]
    /\ b_connections' = BroadcasterConnectionsWithout(handler.ws)
    /\ b_channels' = BroadcasterChannelsWithout(handler.ws)
    /\ members' = Removed(handler.ws)
    /\ UNCHANGED <<component, connections, groups, bc, wsState, closeFrames, last,
                   sessions, sc, rt, fr, hs, dp>>

HandlerNext ==
    \/ \E ws \in Conns : Handler_endpoint_enter(ws)
    \/ Handler_accept
    \/ \E sid \in SessionIds : Handler_add_session(sid)
    \/ Handler_handle_websocket
    \/ \E kind \in {"json", "text"} : Transport_message(kind)
    \/ \E payload \in PingPayloads : Transport_ping(payload)
    \/ Transport_peer_close
    \/ Handler_receive_json
    \/ Handler_receive_text
    \/ \E outcome \in OnMessageOutcomes : Handler_on_message(outcome)
    \/ Handler_on_disconnect
    \/ Handler_endpoint_exit

----------------------------------------------------------------------------
\* WebSocketFrame: the fallback class (HAS_RUST_WS is False)

WebSocketFrame(opcode, payload, is_final, is_masked) ==
    [opcode |-> opcode, payload |-> payload, is_final |-> is_final,
     is_masked |-> is_masked]

\* len bytes of value fill.
Bytes(len, fill) == [i \in 1..len |-> fill]

\* WebSocketFrame.text / WebSocketFrame.binary
WebSocketFrame_text(payload) == WebSocketFrame(1, payload, TRUE, FALSE)

WebSocketFrame_binary(payload) == WebSocketFrame(2, payload, TRUE, FALSE)

\* 0x80 | opcode, for an opcode of one byte.
FinalBit(opcode) == IF opcode >= 128 THEN opcode ELSE 128 + opcode

\* to_bytes: header = bytes([0x80 | self.opcode, len(self.payload)]), and
\* bytes() raises ValueError for an element above 255; then header + payload.
WebSocketFrame_to_bytes(f) ==
    IF FinalBit(f.opcode) > 255 \/ Len(f.payload) > 255
    THEN [err |-> "ValueError", data |-> << >>]
    ELSE [err |-> "none",
          data |-> <<FinalBit(f.opcode), Len(f.payload)>> \o f.payload]

\* parse: fewer than two bytes raise ValueError; otherwise a final, unmasked
\* text frame of data[2:].
WebSocketFrame_parse(data) ==
    IF Len(data) < 2
    THEN [err |-> "ValueError", frame |-> WebSocketFrame(0, << >>, FALSE, FALSE)]
    ELSE [err |-> "none",
          frame |-> WebSocketFrame(1, SubSeq(data, 3, Len(data)), TRUE, FALSE)]

\* WebSocketFrame.parse(f.to_bytes()) for a frame f built by text or binary.
Frame_round_trip(binary, len, fill) ==
    /\ component = "frame"
    /\ LET f == IF binary THEN WebSocketFrame_binary(Bytes(len, fill))
                          ELSE WebSocketFrame_text(Bytes(len, fill))
           b == WebSocketFrame_to_bytes(f)
           g == WebSocketFrame_parse(b.data)
       IN rt' = IF b.err # "none"
                THEN RoundTrip(f.opcode, len, fill, b.err, FALSE)
                ELSE RoundTrip(f.opcode, len, fill, g.err,
                               g.err = "none" /\ g.frame = f)
    /\ fr' = NoFrameOp
    /\ UNCHANGED <<component, connections, groups, b_connections, b_channels, bc,
                   members, wsState, closeFrames, last, sessions, sc, handler>>
    /\ UNCHANGED <<hs, dp>>

\* WebSocketFrame(opcode, payload, True, is_masked).to_bytes()
Frame_to_bytes(opcode, len, is_masked) ==
    /\ component = "frame"
    /\ LET f == WebSocketFrame(opcode, Bytes(len, 97), TRUE, is_masked)
           b == WebSocketFrame_to_bytes(f)
       IN fr' = FrameOp("to_bytes", f, b.err, b.data)
    /\ rt' = NoRoundTrip
    /\ UNCHANGED <<component, connections, groups, b_connections, b_channels, bc,
                   members, wsState, closeFrames, last, sessions, sc, handler>>
    /\ UNCHANGED <<hs, dp>>

\* WebSocketFrame.parse(data)
Frame_parse(data) ==
    /\ component = "frame"
    /\ LET g == WebSocketFrame_parse(data)
       IN fr' = FrameOp("parse", data, g.err, g.frame)
    /\ rt' = NoRoundTrip
    /\ UNCHANGED <<component, connections, groups, b_connections, b_channels, bc,
                   members, wsState, closeFrames, last, sessions, sc, handler>>
    /\ UNCHANGED <<hs, dp>>

\* close: payload = b''; the code's two big-endian bytes when a code is given
\* (int.to_bytes raises OverflowError above 65535); the reason's bytes when a
\* reason is given; then WebSocketFrame(8, payload, True, False).
WebSocketFrame_close(code, reason) ==
    IF code # None /\ code[1] > 65535
    THEN [err |-> "OverflowError", frame |-> WebSocketFrame(0, << >>, FALSE, FALSE)]
    ELSE [err |-> "none",
          frame |-> WebSocketFrame(8,
                        (IF code # None
                         THEN <<code[1] \div 256, code[1] % 256>> ELSE << >>)
                        \o (IF reason # None THEN reason[1] ELSE << >>),
                        TRUE, FALSE)]

\* WebSocketFrame.close(code, reason)
Frame_close(code, reason) ==
    /\ component = "frame"
    /\ LET g == WebSocketFrame_close(code, reason)
       IN fr' = FrameOp("close", [code |-> code, reason |-> reason], g.err, g.frame)
    /\ rt' = NoRoundTrip
    /\ UNCHANGED <<component, connections, groups, b_connections, b_channels, bc,
                   members, wsState, closeFrames, last, sessions, sc, handler>>
    /\ UNCHANGED <<hs, dp>>

FrameNext ==
    \/ \E binary \in BOOLEAN, len \in FrameLengths, fill \in FillBytes :
          Frame_round_trip(binary, len, fill)
    \/ \E opcode \in Opcodes, len \in ToBytesLengths, is_masked \in BOOLEAN :
          Frame_to_bytes(opcode, len, is_masked)
    \/ \E data \in ParseInputs : Frame_parse(data)
    \/ \E code \in CloseCodes, reason \in CloseReasons : Frame_close(code, reason)

----------------------------------------------------------------------------
\* websocket_handshake: the fallback branch (HAS_RUST_WS is False).  Text and
\* bytes are sequences of code points and of byte values; a 32-bit word of the
\* digest is the pair <<high 16 bits, low 16 bits>>.

\* F applied to the value of x: x is evaluated once, whatever use F makes of it.
Apply(F(_), x) == CHOOSE r \in {F(u) : u \in {x}} : TRUE

\* The UTF-8 bytes of the code points lo..hi of text, for code points below
\* 2048 (by halves, to keep the evaluation shallow).
RECURSIVE Utf8EncodeRange(_, _, _)
Utf8EncodeRange(text, lo, hi) ==
    IF lo > hi THEN << >>
    ELSE IF lo = hi
    THEN (IF text[lo] < 128 THEN <<text[lo]>>
          ELSE <<192 + (text[lo] \div 64), 128 + (text[lo] % 64)>>)
    ELSE Utf8EncodeRange(text, lo, (lo + hi) \div 2)
            \o Utf8EncodeRange(text, ((lo + hi) \div 2) + 1, hi)

\* str.encode()
Utf8Encode(text) == Apply(LAMBDA t : Utf8EncodeRange(t, 1, Len(t)), text)

\* bytes.decode(): UTF-8, for the ASCII bytes base64 produces.
Utf8Decode(data) == Apply(LAMBDA d : [i \in DOMAIN d |-> d[i] % 128], data)

\* Bitwise operations on 16-bit values.
RECURSIVE Xor16(_, _)
Xor16(a, b) ==
    IF a = 0 THEN b ELSE IF b = 0 THEN a
    ELSE ((a + b) % 2) + (2 * Xor16(a \div 2, b \div 2))

RECURSIVE And16(_, _)
And16(a, b) ==
    IF a = 0 \/ b = 0 THEN 0
    ELSE ((a % 2) * (b % 2)) + (2 * And16(a \div 2, b \div 2))

\* 2^n
RECURSIVE Pow2(_)
Pow2(n) == IF n = 0 THEN 1 ELSE 2 * Pow2(n - 1)

\* Operations on 32-bit words.
Xor32(x, y) == <<Xor16(x[1], y[1]), Xor16(x[2], y[2])>>

And32(x, y) == <<And16(x[1], y[1]), And16(x[2], y[2])>>

Not32(x) == <<65535 - x[1], 65535 - x[2]>>

\* Addition modulo 2^32.
Add32(x, y) ==
    <<(x[1] + y[1] + ((x[2] + y[2]) \div 65536)) % 65536, (x[2] + y[2]) % 65536>>

\* Rotation to the left by n bits, 0 < n < 16.
Rotl16(x, n) ==
    <<((x[1] % Pow2(16 - n)) * Pow2(n)) + (x[2] \div Pow2(16 - n)),
      ((x[2] % Pow2(16 - n)) * Pow2(n)) + (x[1] \div Pow2(16 - n))>>

\* Rotation to the left by n bits, 0 < n < 32.
Rotl32(x, n) ==
    IF n = 16 THEN <<x[2], x[1]>>
    ELSE IF n > 16 THEN Rotl16(<<x[2], x[1]>>, n - 16)
    ELSE Rotl16(x, n)

\* The message, the byte 0x80, zero bytes up to 56 modulo 64, and the message's
\* length in bits as 8 big-endian bytes.
Sha1Pad(data) ==
    data \o <<128>> \o [i \in 1..((119 - (Len(data) % 64)) % 64) |-> 0]
         \o <<0, 0, 0, 0, 0, ((Len(data) * 8) \div 65536) % 256,
              ((Len(data) * 8) \div 256) % 256, (Len(data) * 8) % 256>>

\* The 16 words of the 64-byte block starting after byte off.
Sha1Block(data, off) ==
    [i \in 1..16 |-> <<(data[off + (4 * i) - 3] * 256) + data[off + (4 * i) - 2],
                        (data[off + (4 * i) - 1] * 256) + data[off + (4 * i)]>>]

\* The next word of the message schedule w:
\* w[t] = rotl1(w[t-3] ^ w[t-8] ^ w[t-14] ^ w[t-16]).
Sha1NextWord(w) ==
    Apply(LAMBDA x : Rotl32(x, 1),
          Xor32(Apply(LAMBDA y : y, Xor32(w[Len(w) - 2], w[Len(w) - 7])),
                Apply(LAMBDA y : y, Xor32(w[Len(w) - 13], w[Len(w) - 15]))))

\* The message schedule extended by n words (by halves, to keep the evaluation
\* shallow).
RECURSIVE Sha1Extend(_, _)
Sha1Extend(w, n) ==
    IF n = 0 THEN w
    ELSE IF n = 1 THEN Append(w, Sha1NextWord(w))
    ELSE Apply(LAMBDA u : Sha1Extend(u, n - (n \div 2)), Sha1Extend(w, n \div 2))

\* The 80 words of the schedule of a block of 16.
Sha1Schedule(w) == Apply(LAMBDA u : Sha1Extend(u, 80 - Len(u)), w)

\* The round function and constant of round t (0..79).
Sha1F(t, b, c, d) ==
    IF t < 20
    THEN Apply(LAMBDA x : Apply(LAMBDA y : Xor32(x, y), And32(Not32(b), d)),
               And32(b, c))
    ELSE IF t >= 40 /\ t < 60
    THEN Apply(LAMBDA x :
                 Apply(LAMBDA y :
                         Apply(LAMBDA z : Xor32(x, z), Xor32(y, And32(c, d))),
                       And32(b, d)),
               And32(b, c))
    ELSE Apply(LAMBDA x : Xor32(x, d), Xor32(b, c))

Sha1K(t) ==
    IF t < 20 THEN <<23170, 31129>>
    ELSE IF t < 40 THEN <<28377, 60321>>
    ELSE IF t < 60 THEN <<36635, 48348>>
    ELSE <<51810, 49622>>

\* The sum modulo 2^32 of the words of the sequence ws.
RECURSIVE Sum32(_)
Sum32(ws) ==
    IF Len(ws) = 1 THEN ws[1]
    ELSE Apply(LAMBDA x : Add32(ws[1], x), Sum32(Tail(ws)))

\* Round t on the working variables v = <<a, b, c, d, e>>.
Sha1Round(t, v, w) ==
    <<Apply(Sum32, <<Rotl32(v[1], 5), Sha1F(t, v[2], v[3], v[4]), v[5],
                     Sha1K(t), w[t + 1]>>),
      v[1], Rotl32(v[2], 30), v[3], v[4]>>

\* Rounds t..t+n-1 (by halves, to keep the evaluation shallow).
RECURSIVE Sha1Rounds(_, _, _, _)
Sha1Rounds(t, n, v, w) ==
    IF n = 1 THEN Sha1Round(t, v, w)
    ELSE Apply(LAMBDA u : Sha1Rounds(t + (n \div 2), n - (n \div 2), u, w),
               Sha1Rounds(t, n \div 2, v, w))

\* The digest state hh after one more block, whose schedule is w.
Sha1Compress(hh, w) ==
    Apply(LAMBDA v : [i \in 1..5 |-> Add32(hh[i], v[i])], Sha1Rounds(0, 80, hh, w))

\* The digest state after the blocks from offset off on.
RECURSIVE Sha1Blocks(_, _, _)
Sha1Blocks(data, off, hh) ==
    IF off >= Len(data) THEN hh
    ELSE Apply(LAMBDA g : Sha1Blocks(data, off + 64, g),
               Apply(LAMBDA w : Sha1Compress(hh, w),
                     Sha1Schedule(Sha1Block(data, off))))

\* The 20 bytes of the digest state hh.
Sha1Bytes(hh) ==
    [i \in 1..20 |->
        IF i % 2 = 1
        THEN hh[(i + 3) \div 4][IF (i - 1) % 4 < 2 THEN 1 ELSE 2] \div 256
        ELSE hh[(i + 3) \div 4][IF (i - 1) % 4 < 2 THEN 1 ELSE 2] % 256]

\* hashlib.sha1(data).digest()
Sha1Digest(data) ==
    Apply(Sha1Bytes,
          Apply(LAMBDA p : Sha1Blocks(p, 0,
                               <<<<26437, 8961>>, <<61389, 43913>>, <<39098, 56574>>,
                                 <<4146, 21622>>, <<50130, 57840>>>>),
                Sha1Pad(data)))

\* The character of the base64 alphabet for a 6-bit value.
Base64Char(v) ==
    IF v < 26 THEN 65 + v
    ELSE IF v < 52 THEN 97 + (v - 26)
    ELSE IF v < 62 THEN 48 + (v - 52)
    ELSE IF v = 62 THEN 43 ELSE 47

\* Byte i of data, 0 past its end.
ByteAt(data, i) == IF i <= Len(data) THEN data[i] ELSE 0

\* Character k (1..4) of the base64 group of the three bytes from data[j] on:
\* '=' where the group has no byte for it.
Base64GroupChar(data, j, k) ==
    IF k = 1 THEN Base64Char(data[j] \div 4)
    ELSE IF k = 2
    THEN Base64Char(((data[j] % 4) * 16) + (ByteAt(data, j + 1) \div 16))
    ELSE IF k = 3
    THEN (IF j + 1 > Len(data) THEN 61
          ELSE Base64Char(((data[j + 1] % 16) * 4) + (ByteAt(data, j + 2) \div 64)))
    ELSE (IF j + 2 > Len(data) THEN 61 ELSE Base64Char(data[j + 2] % 64))

\* base64.b64encode(data): 4 characters for every 3 bytes, '=' for padding.
Base64Encode(data) ==
    Apply(LAMBDA d :
            [i \in 1..(4 * ((Len(d) + 2) \div 3)) |->
                Base64GroupChar(d, (3 * ((i - 1) \div 4)) + 1, ((i - 1) % 4) + 1)],
          data)

\* GUID = "258EAFA5-E914-47DA-95CA-C5AB0DC85B11"
GUID ==
    <<50, 53, 56, 69, 65, 70, 65, 53, 45, 69, 57, 49, 52, 45, 52, 55, 68, 65, 45,
      57, 53, 67, 65, 45, 67, 53, 65, 66, 48, 68, 67, 56, 53, 66, 49, 49>>

\* A handshake that hashes the key alone, without the GUID.
HandshakeWithoutGuid(key) ==
    Utf8Decode(Base64Encode(Sha1Digest(Utf8Encode(key))))

\* combined = key + GUID; sha1_hash = hashlib.sha1(combined.encode()).digest();
\* return base64.b64encode(sha1_hash).decode()
websocket_handshake(key) ==
    Utf8Decode(Base64Encode(Sha1Digest(Utf8Encode(key \o GUID))))

\* A call of websocket_handshake; the caller keeps the value.
Handshake(key) ==
    /\ component = "handshake"
    /\ Len(hs) < MaxHandshakes
    /\ hs' = Append(hs, [key |-> key, value |-> websocket_handshake(key)])
    /\ UNCHANGED <<component, connections, groups, b_connections, b_channels, bc,
                   members, wsState, closeFrames, last, sessions, sc, handler, rt,
                   fr, dp>>

HandshakeNext == \E key \in HandshakeKeys : Handshake(key)

----------------------------------------------------------------------------
\* The send of a fan-out for one target: the wrapper method its isinstance
\* test picks for the message, and what that method puts on the wire.

\* broadcast: a dict is json.dumps'ed first; then send_text for a str, else
\* send_bytes.
BroadcasterSendMethod(type) ==
    IF type \in {"str", "dict"} THEN "send_text" ELSE "send_bytes"

\* broadcast_to_group: send_text for a str, else send_json.
PoolSendMethod(type) == IF type = "str" THEN "send_text" ELSE "send_json"

\* broadcast_to_session: send_text for a str, else send_json.
SessionSendMethod(type) == IF type = "str" THEN "send_text" ELSE "send_json"

\* The frame a wrapper method sends: send_json sends the text
\* json.dumps(data, default=str).
WireFrameOf(method) == IF method = "send_bytes" THEN "binary" ELSE "text"

Dispatched(caller, type, method) ==
    [called |-> TRUE, caller |-> caller, type |-> type, method |-> method,
     wire |-> WireFrameOf(method)]

Dispatch_broadcast(type) ==
    /\ component = "dispatch"
    /\ dp' = Dispatched("broadcast", type, BroadcasterSendMethod(type))
    /\ UNCHANGED <<component, connections, groups, b_connections, b_channels, bc,
                   members, wsState, closeFrames, last, sessions, sc, handler, rt,
                   fr, hs>>

Dispatch_broadcast_to_group(type) ==
    /\ component = "dispatch"
    /\ dp' = Dispatched("broadcast_to_group", type, PoolSendMethod(type))
    /\ UNCHANGED <<component, connections, groups, b_connections, b_channels, bc,
                   members, wsState, closeFrames, last, sessions, sc, handler, rt,
                   fr, hs>>

Dispatch_broadcast_to_session(type) ==
    /\ component = "dispatch"
    /\ dp' = Dispatched("broadcast_to_session", type, SessionSendMethod(type))
    /\ UNCHANGED <<component, connections, groups, b_connections, b_channels, bc,
                   members, wsState, closeFrames, last, sessions, sc, handler, rt,
                   fr, hs>>

DispatchNext ==
    \/ \E type \in MessageTypes : Dispatch_broadcast(type)
    \/ \E type \in MessageTypes : Dispatch_broadcast_to_group(type)
    \/ \E type \in MessageTypes : Dispatch_broadcast_to_session(type)

Next ==
    \/ PoolNext
    \/ BroadcasterNext
    \/ Broadcast_return
    \/ ConnectionNext
    \/ SessionNext
    \/ HandlerNext
    \/ FrameNext
    \/ HandshakeNext
    \/ DispatchNext

Spec == Init /\ [][Next]_vars

\* The peer whose sends may never complete.
SlowPeer == CHOOSE c \in Conns : TRUE

\* A send of a broadcast to a peer other than the slow one completes.
PromptSend ==
    /\ bc.cur # SlowPeer
    /\ \E ok \in BOOLEAN : \/ Pool_broadcast_send(ok)
                           \/ Broadcaster_broadcast_send(ok)
                           \/ Session_broadcast_to_all_send(ok)

\* The event loop runs every task that can run: a send to a responsive peer
\* completes and a finished broadcast returns.  Nothing makes the send to the
\* slow peer complete.
FairSpec == Spec /\ WF_vars(PromptSend) /\ WF_vars(Broadcast_return)

----------------------------------------------------------------------------
\* Properties

\* c is registered with the object the run exercises.
Registered(c) ==
    IF component = "pool" THEN c \in connections ELSE c \in b_connections

\* c is a member of group (pool) or channel (broadcaster) g in the given maps.
MemberIn(grps, chans, c, g) ==
    IF component = "pool"
    THEN g \in DOMAIN grps /\ c \in grps[g]
    ELSE g \in DOMAIN chans /\ c \in chans[g]

Member(c, g) == MemberIn(groups, b_channels, c, g)

\* C1: a broadcast whose snapshot holds N targets whose send succeeds and one
\* whose send fails returns N, and when the call returns (no other task having
\* touched the registry meanwhile) the failing target is registered no more and
\* is a member of no group or channel.
C1_BroadcastCountsLiveAndEvictsDead ==
    (bc.pc = "done" /\ bc.skipped = {} /\ Cardinality(bc.failed) = 1)
        => /\ bc.sent_count = Cardinality(bc.snapshot) - 1
           /\ bc.quiet =>
                \A f \in bc.failed :
                    /\ ~Registered(f)
                    /\ \A g \in GroupNames : ~Member(f, g)

\* C1's case: a pool broadcast returned with one failed target and at least one
\* delivery, undisturbed.
C1_Witness ==
    /\ component = "pool"
    /\ bc.pc = "done" /\ bc.quiet /\ bc.skipped = {}
    /\ Cardinality(bc.failed) = 1
    /\ bc.sent_count >= 1

\* C2: a failed send never aborts the fan-out: the call never ends by raising,
\* and when it returns every target of the snapshot had its turn (its send
\* succeeded exactly once, or failed, or its id was unregistered), no target
\* received the message twice, and the count is the number of deliveries.
C2_FanOutSurvivesFailures ==
    /\ bc.pc # "raised"
    /\ \A c \in Conns : bc.recv[c] <= 1
    /\ bc.pc = "done" =>
        /\ bc.remaining = {}
        /\ \A t \in bc.snapshot :
              \/ bc.recv[t] = 1 /\ t \notin bc.failed
              \/ bc.recv[t] = 0 /\ t \in bc.failed
              \/ bc.recv[t] = 0 /\ t \in bc.skipped
        /\ bc.sent_count = Cardinality({t \in bc.snapshot : bc.recv[t] = 1})

\* C2's case: a broadcaster fan-out with a failed target and a delivered one.
C2_Witness ==
    /\ component = "broadcaster"
    /\ bc.pc = "done"
    /\ bc.failed # {}
    /\ \E t \in bc.snapshot : bc.recv[t] = 1

\* C3: the target set is fixed when the call starts: only a member that was
\* registered at that moment receives the call's message; a connection added to
\* the registry or to the group while the call is suspended in a send does not.
C3_TargetsFixedAtStart ==
    \A c \in Conns : bc.recv[c] > 0 => c \in bc.eligible

\* The step is remove_connection(c), called by a task or by the except clause
\* of a broadcast whose send to c failed.
RemoveStep(c) ==
    \/ Pool_remove_connection(c)
    \/ Broadcaster_remove_connection(c)
    \/ bc.cur = c /\ (Pool_broadcast_send(FALSE) \/ Broadcaster_broadcast_send(FALSE))

\* C4: under every interleaving of join, leave, remove-connection and broadcast
\* steps the memberships are exactly those the completed joins, leaves, removals
\* and evictions call for: every join not undone by a leave, a removal or an
\* eviction of that connection is present, and nothing else is (no update of one
\* task is lost to, or made up by, another).
C4_MembershipNeverCorrupted ==
    \A c \in Conns, g \in GroupNames : Member(c, g) <=> <<c, g>> \in members

\* C4's case: a connection joined the group a pool broadcast is iterating while
\* that broadcast is suspended in a send, and is a member.
C4_Witness ==
    /\ component = "pool"
    /\ bc.pc = "sending"
    /\ \E c \in Conns : Member(c, bc.group) /\ c \notin bc.snapshot
    /\ \E c \in Conns : Member(c, bc.group) /\ c \in bc.snapshot

\* C5: after remove_connection(c) (called by a task, or by a broadcast for a
\* failed target), c is not registered and is a member of no group or channel
\* that exists, the set of groups is the same, and every other connection's
\* registration and memberships are as before.
C5_RemoveEvictsFromEveryGroup ==
    [][\A c \in Conns : RemoveStep(c) =>
        /\ c \notin connections' /\ c \notin b_connections'
        /\ \A g \in DOMAIN groups' : c \notin groups'[g]
        /\ \A n \in DOMAIN b_channels' : c \notin b_channels'[n]
        /\ DOMAIN groups' = DOMAIN groups
        /\ DOMAIN b_channels' = DOMAIN b_channels
        /\ connections' \ {c} = connections \ {c}
        /\ b_connections' \ {c} = b_connections \ {c}
        /\ \A g \in DOMAIN groups : groups'[g] \ {c} = groups[g] \ {c}
        /\ \A n \in DOMAIN b_channels : b_channels'[n] \ {c} = b_channels[n] \ {c}]_vars

\* C5's case: remove_connection ran on a member of a channel (a broadcast's
\* target whose send failed, nothing else having touched the registry): it is in
\* no channel and not registered, and another member of its channel is still one.
C5_Witness ==
    /\ component = "broadcaster"
    /\ bc.quiet
    /\ bc.group \in DOMAIN b_channels
    /\ DOMAIN b_channels = GroupNames
    /\ \E f \in bc.failed :
          /\ f \notin b_connections
          /\ \A n \in GroupNames : f \notin b_channels[n]
          /\ \E d \in Conns \ {f} : d \in b_channels[bc.group] /\ d \in b_connections

\* C6: join and leave change nothing when the id is not a registered connection
\* or the group does not exist.
C6_JoinLeaveNoOpWhenAbsent ==
    [][\A c \in Conns, g \in GroupNames :
        /\ (Pool_add_to_group(c, g) \/ Pool_remove_from_group(c, g))
             /\ (c \notin connections \/ g \notin DOMAIN groups)
           => groups' = groups
        /\ (Broadcaster_add_to_channel(c, g) \/ Broadcaster_remove_from_channel(c, g))
             /\ (c \notin b_connections \/ g \notin DOMAIN b_channels)
           => b_channels' = b_channels]_vars

\* The wrapper's send operations.
SendOps == {"send_frame", "send_text", "send_bytes", "send_json"}

\* C7: a send operation called on a connection that is not Open (CONNECTED)
\* fails with ConnectionClosedError and nothing else, and does not reach the
\* transport.
C7_SendOnClosedRaisesConnectionClosedError ==
    (last.op \in SendOps /\ last.pre # "CONNECTED")
        => last.err = "ConnectionClosedError" /\ ~last.forwarded

\* C8: close is idempotent: a close() on a connection whose Close message has
\* been sent already sends no second one, raises no error and leaves the state
\* as it was.
C8_CloseIdempotent ==
    (last.op = "close" /\ last.pre = "DISCONNECTED" /\ closeFrames[last.ws] >= 1)
        => /\ last.err = "none"
           /\ closeFrames[last.ws] = 1
           /\ wsState[last.ws] = "DISCONNECTED"

\* The place of a state on the line Connecting, Open, Closing, Closed.
Rank(st) ==
    CASE st = "CONNECTING" -> 0
      [] st = "CONNECTED" -> 1
      [] st = "CLOSING" -> 2
      [] st = "DISCONNECTED" -> 3

\* C9: the state only moves forward along Connecting, Open, Closing, Closed;
\* Open is entered only by accept; Closed is reached from Open without passing
\* through Closing only when the transport fails.
C9_StateMovesForwardThroughClosing ==
    [][\A ws \in Conns :
        /\ Rank(wsState'[ws]) >= Rank(wsState[ws])
        /\ (wsState[ws] # "CONNECTED" /\ wsState'[ws] = "CONNECTED")
              => last'.op = "accept" /\ wsState[ws] = "CONNECTING"
        /\ (wsState[ws] = "CONNECTED" /\ wsState'[ws] = "DISCONNECTED")
              => last'.op = "disconnect"]_vars

\* C10: a connection that has reached Closed is registered nowhere once the
\* operation that closed it has completed.
C10_ClosedConnectionIsDeregistered ==
    \A ws \in Conns :
        wsState[ws] = "DISCONNECTED" => ws \notin b_connections

\* The calls of hook k in the handler's run.
HookCalls(k) == {i \in DOMAIN handler.hooks : handler.hooks[i] = k}

\* An endpoint has started.
Started == handler.pc # "idle"

\* C11: when the endpoint running the handler loop has finished, on_disconnect
\* was called exactly once and after every on_message, and the connection is
\* registered with the broadcaster no more and bound to no session.
C11_DisconnectOnceThenDeregistered ==
    handler.pc = "exited" =>
        /\ Cardinality(HookCalls("on_disconnect")) = 1
        /\ handler.hooks[Len(handler.hooks)] = "on_disconnect"
        /\ handler.ws \notin b_connections
        /\ \A sid \in DOMAIN sessions : sessions[sid] # handler.ws

\* What on_message is to be given for a received message.
Expected(m) == Message(m.id, IF m.kind = "json" THEN "decoded" ELSE "text")

\* C12: whenever the loop is between two iterations or has ended, the
\* on_message calls made are one per message received, in arrival order, each
\* with the decoded value of a JSON message and the text of any other.
C12_EveryMessageDeliveredInOrder ==
    handler.pc \in {"receive_json", "finally", "returned", "exited"} =>
        handler.delivered = [i \in DOMAIN handler.taken |-> Expected(handler.taken[i])]

\* C13: an exception raised by on_message does not end the loop while the
\* connection is connected.
C13_HandlerErrorKeepsLoop ==
    (Started /\ handler.cause = "on_message") => wsState[handler.ws] # "CONNECTED"

\* C14: when the loop has ended, every Ping the peer sent while the loop was
\* reading has been answered by one Pong of the same payload, in order, and
\* on_message was given received data messages only.
C14_PingAnsweredByPong ==
    handler.pc \in {"returned", "exited"} =>
        /\ handler.pongs = handler.pings
        /\ \A i \in DOMAIN handler.delivered :
              \E j \in DOMAIN handler.taken :
                  handler.taken[j].id = handler.delivered[i].id

\* C15: broadcast_to_session returns True exactly when the session existed and
\* the send to its connection succeeded; when the send failed it returns False,
\* the session id is in the session map no more and the connection the send
\* went to is registered with the broadcaster no more; when the id is unknown
\* it returns False and the sessions and the broadcaster are as they were.
C15_UnicastReturnsAndEvicts ==
    sc.pc = "done" =>
        /\ sc.result <=> (sc.known /\ sc.sendok)
        /\ (sc.known /\ ~sc.sendok) =>
              /\ sc.sid \notin DOMAIN sessions
              /\ sc.target \notin b_connections
        /\ ~sc.known =>
              /\ sessions = sc.pre.sessions
              /\ b_connections = sc.pre.conns

\* C16: the session map is one-to-one: no connection is bound to two different
\* session ids at the same time (a session id is bound to one connection by the
\* map's type).
C16_SessionMapOneToOne ==
    \A s1, s2 \in DOMAIN sessions :
        sessions[s1] = sessions[s2] => s1 = s2

\* C17: every session id of the session map is bound to a connection that is
\* registered with the broadcaster.
C17_SessionConnectionIsLive ==
    \A sid \in DOMAIN sessions : sessions[sid] \in b_connections

\* C18: the count broadcast_to_all returns does not exceed the number of
\* sessions the manager holds (no task having changed them during the call).
C18_BroadcastToAllCountsSessions ==
    (component = "session" /\ bc.pc = "done" /\ bc.quiet)
        => bc.sent_count <= Cardinality(DOMAIN sessions)

\* C19: a broadcast does not wait for ever on one peer: a broadcast suspended
\* in a send gets to its return, and every target still ahead of it gets its
\* turn, even when the sends to one peer never complete.
C19_BroadcastNeverBlocksOnOnePeer ==
    /\ (bc.pc = "sending") ~> (bc.pc = "done")
    /\ \A c \in Conns : (bc.pc = "sending" /\ c \in bc.remaining) ~> (c \notin bc.remaining)

\* C20: for a final, unmasked text frame f of each payload length built,
\* WebSocketFrame.parse(f.to_bytes()) raises nothing and yields a frame equal
\* to f in opcode, payload, final flag and mask flag.
C20_FrameRoundTrip ==
    (rt.called /\ rt.opcode = 1) => (rt.err = "none" /\ rt.same)

\* The targets a finished broadcast evicted: in its snapshot, registered no more
\* and a member of nothing.
Evicted ==
    {c \in bc.snapshot : ~Registered(c) /\ \A g \in GroupNames : ~Member(c, g)}

\* C26: when a broadcast returns (no other task having touched the registry
\* meanwhile), the count returned plus the number of connections it evicted is
\* the size of its snapshot, the evicted connections are those whose send
\* failed, and every connection whose send succeeded is still registered and
\* still a member of the group the broadcast went to.
C26_BroadcastAccounting ==
    (bc.pc = "done" /\ bc.quiet) =>
        /\ bc.sent_count + Cardinality(Evicted) = Cardinality(bc.snapshot)
        /\ Evicted = bc.failed
        /\ \A c \in bc.snapshot :
              bc.recv[c] > 0 =>
                /\ Registered(c)
                /\ bc.group \in GroupNames => Member(c, bc.group)

\* C27: every member of every pool group is a key of the pool's connection
\* map, and every member of every broadcaster channel is in the broadcaster's
\* connection set.
C27_MembershipImpliesRegistration ==
    /\ \A g \in DOMAIN groups : groups[g] \subseteq connections
    /\ \A n \in DOMAIN b_channels : b_channels[n] \subseteq b_connections

\* C28: when the send of broadcast_to_session(s, m) fails after another task
\* has rebound s to a new connection (the session map no longer holds the
\* connection the send went to), the new binding of s stays and the new
\* connection stays registered with the broadcaster.
C28_FailedUnicastKeepsNewBinding ==
    [][(/\ sc.pc = "sending"
        /\ Session_broadcast_to_session_send(FALSE)
        /\ sc.sid \in DOMAIN sessions
        /\ sessions[sc.sid] # sc.target)
       => /\ sc.sid \in DOMAIN sessions'
          /\ sessions'[sc.sid] = sessions[sc.sid]
          /\ sessions[sc.sid] \in b_connections => sessions[sc.sid] \in b_connections']_vars

\* C29: when add_session(s, c2) is called while s is bound to another
\* connection c1 that no session maps to afterwards, c1 is registered with the
\* broadcaster no more.
C29_RebindReleasesOldConnection ==
    [][\A s \in SessionIds, c2 \in Conns :
        (/\ Session_add_session(s, c2)
         /\ s \in DOMAIN sessions
         /\ sessions[s] # c2
         /\ \A t \in DOMAIN sessions' : sessions'[t] # sessions[s])
        => sessions[s] \notin b_connections']_vars

\* C30: a broadcast given a channel name (the empty name and the name of no
\* channel included) delivers only to the connections that were members of
\* that channel when the call started, and returns 0 when there were none.
C30_ChannelBroadcastReachesMembersOnly ==
    (component = "broadcaster" /\ bc.group # NoChannel) =>
        LET m == IF bc.group \in GroupNames THEN bc.eligible ELSE {}
        IN /\ \A c \in Conns : bc.recv[c] > 0 => c \in m
           /\ (bc.pc = "done" /\ m = {}) => bc.sent_count = 0

\* The MASK bit of a serialized frame: the high bit of its second byte.
MaskBit(data) == data[2] \div 128

\* C21: to_bytes never masks: for every frame serialized, the MASK bit of the
\* bytes is 0 and no mask key is emitted (the bytes are the payload and a header
\* of 2, 4 or 10 bytes, not 4 more).
C21_NeverMasksOutgoing ==
    (fr.op = "to_bytes" /\ fr.err = "none") =>
        /\ MaskBit(fr.out) = 0
        /\ Len(fr.out) - Len(fr.arg.payload) \in {2, 4, 10}

\* The 7-bit length field of a frame's second byte.
LengthField(data) == data[2] % 128

\* The bytes before the payload: 2, the extended length, the mask key.
HeaderSize(data) ==
    2 + (IF LengthField(data) = 126 THEN 2 ELSE IF LengthField(data) = 127 THEN 8 ELSE 0)
      + (IF MaskBit(data) = 1 THEN 4 ELSE 0)

\* data is shorter than its header, or than its header and declared payload.
Truncated(data) ==
    \/ Len(data) < 2
    \/ Len(data) < HeaderSize(data)
    \/ LengthField(data) < 126 /\ Len(data) < HeaderSize(data) + LengthField(data)
    \/ LengthField(data) = 126 /\ Len(data) < HeaderSize(data) + (data[3] * 256) + data[4]

\* One of the three reserved bits of the first byte is set.
ReservedBitSet(data) == Len(data) >= 1 /\ (data[1] \div 16) % 8 # 0

\* The opcode of the first byte is none of the protocol's.
UnknownOpcode(data) == Len(data) >= 1 /\ data[1] % 16 \notin Opcodes

\* C22: parse fails on every byte string that is truncated, has a reserved bit
\* set or carries an unknown opcode.
C22_ParseRejectsMalformed ==
    (fr.op = "parse"
        /\ (Truncated(fr.arg) \/ ReservedBitSet(fr.arg) \/ UnknownOpcode(fr.arg)))
    => fr.err # "none"

\* C23: every frame close(code, reason) builds has opcode 8 and a payload that
\* is empty or is the code's two big-endian bytes followed by the reason; no
\* reason text is in the payload without a code before it.
C23_CloseFrameWellFormed ==
    (fr.op = "close" /\ fr.err = "none") =>
        /\ fr.out.opcode = 8
        /\ \/ fr.out.payload = << >>
           \/ /\ fr.arg.code # None
              /\ fr.out.payload =
                    <<fr.arg.code[1] \div 256, fr.arg.code[1] % 256>>
                    \o (IF fr.arg.reason # None THEN fr.arg.reason[1] ELSE << >>)

\* C24: websocket_handshake of the sample key is the published value, two
\* calls with the same key return the same value, and the calls leave the
\* registries, the sessions and the connections as they were.
C24_HandshakeIsPureAndMatchesVector ==
    component = "handshake" =>
        /\ \A i \in DOMAIN hs : hs[i].key = SampleKey => hs[i].value = SampleAccept
        /\ \A i, j \in DOMAIN hs : hs[i].key = hs[j].key => hs[i].value = hs[j].value
        /\ connections = {} /\ groups = << >>
        /\ b_connections = {} /\ b_channels = << >>
        /\ sessions = << >>
        /\ \A c \in Conns : wsState[c] = "CONNECTING"

\* C24's case: websocket_handshake was called twice with the sample key.
C24_Witness ==
    /\ component = "handshake"
    /\ Len(hs) = 2
    /\ hs[1].key = SampleKey /\ hs[2].key = SampleKey
    /\ hs[2].value = SampleAccept

\* C25: each fan-out sends a str message with send_text and a bytes message
\* with send_bytes.
C25_FanOutDispatchesOnType ==
    dp.called =>
        /\ dp.type = "str" => dp.method = "send_text"
        /\ dp.type = "bytes" => dp.method = "send_bytes"

====
